---- MODULE Spec2Model ----
(***************************************************************************)
(* Workflow-as-code synchronisation of the CDS API engine:                 *)
(*   - extractFromCDSFiles     (engine/api/workflow/repository.go)         *)
(*   - ReadCDSFiles            (engine/api/workflow/repository.go)         *)
(*   - pollRepositoryOperation (engine/api/workflow/repository.go)         *)
(*   - ParseAndImport          (engine/api/workflow/workflow_parser.go)    *)
(* Each function is modelled as its own state machine over its own         *)
(* variables; a specification runs one of them and leaves the others idle. *)
(***************************************************************************)
EXTENDS Integers, Sequences, FiniteSets, TLC

VARIABLES
    \* extractFromCDSFiles
    archive,      \* the entries the tar reader will deliver, in order
    exPos,        \* number of entries already delivered by tr.Next()
    res,          \* the exportedEntities under construction
    mError,       \* the sdk.MultiError: sequence of recorded errors
    exPc,         \* "idle" | "loop" | "done"
    exRet,        \* the returned pair [bundle, err]
    \* pollRepositoryOperation
    pollPc,        \* "idle" | "select" | "done"
    tickTimeoutC,  \* tickTimeout.C: number of ticks waiting (capacity 1)
    tickPollC,     \* tickPoll.C: number of ticks waiting (capacity 1)
    tickTimeoutOn, \* tickTimeout is running (not stopped)
    tickPollOn,    \* tickPoll is running (not stopped)
    ctxErr,        \* c.Err(): Nil until the context is cancelled
    remoteStatus,  \* the status the repositories service holds
    ope,           \* the caller's *sdk.Operation
    pollRet,       \* the returned error and the context's state at the return
    fetchLog,      \* history: one record per GetRepositoryOperation call
    timeoutFired,  \* history: tickTimeout has delivered a tick
    \* ParseAndImport
    ipc,          \* position of the calling goroutine in ParseAndImport
    opts,         \* the ImportOptions
    ew,           \* the exportentities.Workflow to parse
    oldW,         \* the previous workflow: <<>> is nil, <<x>> points to x
    w,            \* the parsed workflow: <<>> before Parse, <<x>> after
    heap,         \* the hook configuration maps; a hook's Config is an index
    heap0,        \* history: the configuration maps when the call started
    payloadLog,   \* history: the hook list of each DefaultPayload call
    steps,        \* history: the steps that have succeeded, in order
    importCalls,  \* history: number of calls of Import
    drainPc,      \* the drain goroutine: "none" | "recv" | "append" | "exit"
    drainM,       \* the message the drain goroutine has received
    msgChanClosed,\* close(msgChan) has been executed
    msgList,      \* the list the drain goroutine appends to
    sent,         \* history: the messages Import has sent, in order
    done,         \* the sync.WaitGroup counter
    globalError,  \* the error Import returned
    iRet,         \* the returned triple [w, msgs, err]
    \* ReadCDSFiles
    files,        \* the argument: a map from file paths to contents
    toPack,       \* the keys the range loop has not visited yet
    packed,       \* the entries written to the tar writer, in order
    packPc,       \* "idle" | "loop" | "done"
    packRet       \* the returned pair [reader, err] and the header at the return

exVars == <<archive, exPos, res, mError, exPc, exRet>>

pollVars == <<pollPc, tickTimeoutC, tickPollC, tickTimeoutOn, tickPollOn, ctxErr,
              remoteStatus, ope, pollRet, fetchLog, timeoutFired>>

impVars == <<ipc, opts, ew, oldW, w, heap, heap0, payloadLog, steps, importCalls,
             drainPc, drainM, msgChanClosed, msgList, sent, done, globalError, iRet>>

packVars == <<files, toPack, packed, packPc, packRet>>

vars == <<exVars, pollVars, impVars, packVars>>

Nil == "nil"

(***************************************************************************)
(* Bounds                                                                  *)
(***************************************************************************)
MaxEntries == 3
MaxFetch == 3
MaxOldHooks == 2
MaxNewHooks == 2
MaxMsgs == 2
MaxFiles == 3

(***************************************************************************)
(* Maps (Go map[K]V)                                                       *)
(***************************************************************************)
EmptyMap == [k \in {} |-> k]

MapSet(m, k, v) == [x \in (DOMAIN m) \cup {k} |-> IF x = k THEN v ELSE m[x]]

(***************************************************************************)
(* Strings are sequences of characters; strings.Contains is substring      *)
(* search.                                                                 *)
(***************************************************************************)
Contains(s, sub) ==
    \E i \in 1..(Len(s) - Len(sub) + 1) : SubSeq(s, i, i + Len(sub) - 1) = sub

DotApp == <<".", "a", "p", "p", ".">>
DotPip == <<".", "p", "i", "p", ".">>
DotEnv == <<".", "e", "n", "v", ".">>

\* File names carried by the tar headers.
NameApp  == <<"a">> \o DotApp \o <<"y">>
NamePip  == <<"b">> \o DotPip \o <<"y">>
NameEnv  == <<"c">> \o DotEnv \o <<"y">>
NameWf   == <<"w", ".", "y">>
NameWf2  == <<"v", ".", "y">>
\* ".pip.app." : holds both ".pip." and ".app." (they share one dot)
NameMix  == <<"m">> \o <<".", "p", "i", "p">> \o DotApp \o <<"y">>

Names == {NameApp, NamePip, NameEnv, NameWf, NameWf2, NameMix}

NoName == <<>>

(***************************************************************************)
(* YAML documents and yaml.Unmarshal.  A document is a partial map from    *)
(* field names to values, or BadDoc when it cannot be deserialized.        *)
(* Unmarshal writes the fields the document holds into the target and      *)
(* leaves the target's other fields as they were.                          *)
(***************************************************************************)
Fields == {"name", "root"}

ZeroEntity == [f \in Fields |-> ""]

BadDoc == [f \in {"!"} |-> "garbage"]

DocFull == [f \in Fields |-> IF f = "name" THEN "n1" ELSE "r1"]
DocPart == [f \in {"name"} |-> "n2"]

Docs == {DocFull, DocPart}

YamlUnmarshal(b, target) ==
    IF "!" \in DOMAIN b
    THEN [err |-> "yaml", val |-> target]
    ELSE [err |-> Nil,
          val |-> [f \in Fields |-> IF f \in DOMAIN b THEN b[f] ELSE target[f]]]

Entries == [name : Names, doc : Docs \cup {BadDoc}]

Archives == UNION {[1..n -> Entries] : n \in 0..MaxEntries}

(***************************************************************************)
(* extractFromCDSFiles                                                     *)
(***************************************************************************)
EmptyEntities ==
    [wrkflw |-> ZeroEntity, apps |-> EmptyMap, pips |-> EmptyMap, envs |-> EmptyMap]

UnmarshalError(kind, name) == [msg |-> "Unable to unmarshal", kind |-> kind, files |-> <<name>>]

TwoWorkflowsError(first, second) == [msg |-> "two workflows files found", kind |-> "workflow", files |-> <<first, second>>]

\* the kind the switch of lines 178-203 selects for a header name
\* the switch of lines 178-203 with the ".pip." case tested first
Classify_PipFirst(name) ==
    IF Contains(name, DotPip) THEN "pipeline"
    ELSE IF Contains(name, DotApp) THEN "application"
    ELSE IF Contains(name, DotEnv) THEN "environment"
    ELSE "workflow"

Classify(name) ==
    IF Contains(name, DotApp) THEN "application"
    ELSE IF Contains(name, DotPip) THEN "pipeline"
    ELSE IF Contains(name, DotEnv) THEN "environment"
    ELSE "workflow"

\* a returned pointer is a sequence: <<>> is nil, <<x>> points to x
NotReturned == [bundle |-> <<>>, err |-> "running"]

ExtractIdle ==
    /\ archive = <<>>
    /\ exPos = 0
    /\ res = EmptyEntities
    /\ mError = <<>>
    /\ exPc = "idle"
    /\ exRet = NotReturned

ExtractInit ==
    /\ archive \in Archives
    /\ exPos = 0
    /\ res = EmptyEntities
    /\ mError = <<>>
    /\ exPc = "loop"
    /\ exRet = NotReturned

\* One iteration of the for loop: tr.Next() delivers an entry, io.Copy reads
\* it, the switch classifies and deserializes it.
ExtractEntry ==
    /\ exPc = "loop"
    /\ exPos < Len(archive)
    /\ LET hdr == archive[exPos + 1]
           b == hdr.doc
           workflowFileName == NoName     \* declared in the loop body, line 176
           kind == Classify(hdr.name)
           bucket == CASE kind = "application" -> "apps"
                       [] kind = "pipeline" -> "pips"
                       [] kind = "environment" -> "envs"
                       [] OTHER -> "wrkflw"
       IN  /\ exPos' = exPos + 1
           /\ IF kind # "workflow"
              THEN LET u == YamlUnmarshal(b, ZeroEntity)
                   IN  IF u.err # Nil
                       THEN /\ mError' = Append(mError, UnmarshalError(kind, hdr.name))
                            /\ res' = res
                       ELSE /\ res' = [res EXCEPT ![bucket] = MapSet(@, hdr.name, u.val)]
                            /\ mError' = mError
              ELSE IF workflowFileName # NoName
                   THEN /\ mError' = Append(mError, TwoWorkflowsError(workflowFileName, hdr.name))
                        /\ res' = res
                   ELSE LET u == YamlUnmarshal(b, res.wrkflw)   \* into &res.wrkflw
                        IN  IF u.err # Nil
                            THEN /\ mError' = Append(mError, UnmarshalError(kind, hdr.name))
                                 /\ res' = res
                            ELSE /\ res' = [res EXCEPT !.wrkflw = u.val]
                                 /\ mError' = mError
    /\ UNCHANGED <<archive, exPc, exRet>>
    /\ UNCHANGED <<pollVars, impVars, packVars>>

\* tr.Next() or io.Copy fails on a damaged stream: lines 163-166, 171-174
ExtractReadError ==
    /\ exPc = "loop"
    /\ exPos < Len(archive)
    /\ exPc' = "done"
    /\ exRet' = [bundle |-> <<>>, err |-> "ErrWrongRequest"]
    /\ UNCHANGED <<archive, exPos, res, mError>>
    /\ UNCHANGED <<pollVars, impVars, packVars>>

\* the return without the check of line 221
ExtractReturn_NoCheck ==
    /\ exPc = "loop"
    /\ exPos = Len(archive)
    /\ exPc' = "done"
    /\ exRet' = [bundle |-> <<res>>, err |-> Nil]
    /\ UNCHANGED <<archive, exPos, res, mError>>
    /\ UNCHANGED <<pollVars, impVars, packVars>>

\* tr.Next() returns io.EOF: lines 160-162, 221-225
ExtractReturn ==
    /\ exPc = "loop"
    /\ exPos = Len(archive)
    /\ exPc' = "done"
    /\ exRet' = IF mError # <<>>
                THEN [bundle |-> <<>>, err |-> "ErrWorkflowInvalid"]
                ELSE [bundle |-> <<res>>, err |-> Nil]
    /\ UNCHANGED <<archive, exPos, res, mError>>
    /\ UNCHANGED <<pollVars, impVars, packVars>>

ExtractNext ==
    \/ ExtractEntry
    \/ ExtractReadError
    \/ ExtractReturn

(***************************************************************************)
(* pollRepositoryOperation                                                 *)
(***************************************************************************)
OperationStatusPending == "pending"
OperationStatusProcessing == "processing"
OperationStatusDone == "done"
OperationStatusError == "error"

\* no detail is attached to an error
NoDetail == <<>>

PollRunning == [err |-> "running", ctx |-> Nil, detail |-> NoDetail]

\* the credentials an Operation's repository strategy may carry
SSHKeys == {"key1", "key2"}
Passwords == {"pw1", "pw2"}
Redacted == "***"
NoStrategy == [SSHKeyContent |-> "", Password |-> ""]

PollIdle ==
    /\ pollPc = "idle"
    /\ tickTimeoutC = 0 /\ tickPollC = 0
    /\ tickTimeoutOn = FALSE /\ tickPollOn = FALSE
    /\ ctxErr = Nil
    /\ remoteStatus = OperationStatusPending
    /\ ope = [Status |-> OperationStatusPending, Error |-> "",
              RepositoryStrategy |-> NoStrategy]
    /\ pollRet = PollRunning
    /\ fetchLog = <<>>
    /\ timeoutFired = FALSE

\* the state after lines 229-231: both tickers created and running
PollInit ==
    /\ pollPc = "select"
    /\ tickTimeoutC = 0 /\ tickPollC = 0
    /\ tickTimeoutOn = TRUE /\ tickPollOn = TRUE
    /\ ctxErr = Nil
    /\ remoteStatus \in {OperationStatusPending, OperationStatusProcessing}
    /\ \E key \in SSHKeys : \E pw \in Passwords :
          ope = [Status |-> OperationStatusPending, Error |-> "",
                 RepositoryStrategy |-> [SSHKeyContent |-> key, Password |-> pw]]
    /\ pollRet = PollRunning
    /\ fetchLog = <<>>
    /\ timeoutFired = FALSE

\* the runtime delivers a tick of tickTimeout (a ticker drops ticks while one
\* is waiting in the channel)
TimeoutTick ==
    /\ tickTimeoutOn
    /\ tickTimeoutC = 0
    /\ tickTimeoutC' = 1
    /\ timeoutFired' = TRUE
    /\ UNCHANGED <<pollPc, tickPollC, tickTimeoutOn, tickPollOn, ctxErr,
                   remoteStatus, ope, pollRet, fetchLog>>
    /\ UNCHANGED <<exVars, impVars, packVars>>

\* the runtime delivers a tick of tickPoll
PollTick ==
    /\ tickPollOn
    /\ tickPollC = 0
    /\ tickPollC' = 1
    /\ UNCHANGED <<pollPc, tickTimeoutC, tickTimeoutOn, tickPollOn, ctxErr,
                   remoteStatus, ope, pollRet, fetchLog, timeoutFired>>
    /\ UNCHANGED <<exVars, impVars, packVars>>

\* the caller cancels the context, or its deadline passes
Cancel ==
    /\ ctxErr = Nil
    /\ ctxErr' \in {"context canceled", "context deadline exceeded"}
    /\ UNCHANGED <<pollPc, tickTimeoutC, tickPollC, tickTimeoutOn, tickPollOn,
                   remoteStatus, ope, pollRet, fetchLog, timeoutFired>>
    /\ UNCHANGED <<exVars, impVars, packVars>>

\* the repositories service advances the operation
RemoteProgress ==
    /\ \/ /\ remoteStatus = OperationStatusPending
          /\ remoteStatus' = OperationStatusProcessing
       \/ /\ remoteStatus = OperationStatusProcessing
          /\ remoteStatus' \in {OperationStatusDone, OperationStatusError}
    /\ UNCHANGED <<pollPc, tickTimeoutC, tickPollC, tickTimeoutOn, tickPollOn,
                   ctxErr, ope, pollRet, fetchLog, timeoutFired>>
    /\ UNCHANGED <<exVars, impVars, packVars>>

\* a return statement and the deferred call of line 231
PollReturnWith(err, detail) ==
    /\ pollPc' = "done"
    /\ pollRet' = [err |-> err, ctx |-> ctxErr, detail |-> detail]
    /\ tickTimeoutOn' = FALSE
    /\ tickPollOn' = tickPollOn

PollReturn(err) == PollReturnWith(err, NoDetail)

\* lines 246-248 with the password left in the copy
OpeTrusted_KeepPassword(o) ==
    [o EXCEPT !.RepositoryStrategy.SSHKeyContent = Redacted]

\* lines 246-248: the copy of *ope with both credentials blanked
OpeTrusted(o) ==
    [o EXCEPT !.RepositoryStrategy.SSHKeyContent = Redacted,
              !.RepositoryStrategy.Password = Redacted]

\* line 249: the error built from ope.Error and the formatted opeTrusted
OperationError(o) == << [cause |-> o.Error, ope |-> OpeTrusted(o)] >>

\* the switch without its case for sdk.OperationStatusDone
StatusOutcome_NoDone(status) ==
    CASE status = "error" -> "operation"
      [] OTHER -> "continue"

\* what the switch of lines 244-253 does with a fetched status
StatusOutcome(status) ==
    CASE status = OperationStatusError -> "operation"
      [] status = OperationStatusDone -> Nil
      [] OTHER -> "continue"

\* case <-c.Done(): lines 234-237
SelectDone ==
    /\ pollPc = "select"
    /\ ctxErr # Nil
    /\ IF ctxErr # Nil
       THEN PollReturn(ctxErr)
       ELSE UNCHANGED <<pollPc, pollRet, tickTimeoutOn, tickPollOn>>
    /\ UNCHANGED <<tickTimeoutC, tickPollC, ctxErr, remoteStatus, ope, fetchLog,
                   timeoutFired>>
    /\ UNCHANGED <<exVars, impVars, packVars>>

\* case <-tickTimeout.C without its return statement
SelectTimeout_NoReturn ==
    /\ pollPc = "select"
    /\ tickTimeoutC = 1
    /\ tickTimeoutC' = 0
    /\ UNCHANGED <<pollPc, pollRet, tickTimeoutOn, tickPollOn>>
    /\ UNCHANGED <<tickPollC, ctxErr, remoteStatus, ope, fetchLog, timeoutFired>>
    /\ UNCHANGED <<exVars, impVars, packVars>>

\* case <-tickTimeout.C: lines 238-239
SelectTimeout ==
    /\ pollPc = "select"
    /\ tickTimeoutC = 1
    /\ tickTimeoutC' = 0
    /\ PollReturn("ErrRepoOperationTimeout")
    /\ UNCHANGED <<tickPollC, ctxErr, remoteStatus, ope, fetchLog, timeoutFired>>
    /\ UNCHANGED <<exVars, impVars, packVars>>

\* case <-tickPoll.C with the failed fetch of lines 241-243 left to the next
\* tick in place of the return
SelectPoll_RetryOnFailure ==
    /\ pollPc = "select"
    /\ tickPollC = 1
    /\ Len(fetchLog) < MaxFetch
    /\ tickPollC' = 0
    /\ \E fetchOk \in BOOLEAN :
          IF ~fetchOk
          THEN /\ fetchLog' = Append(fetchLog, [obs |-> "failed",
                                 timeoutFired |-> timeoutFired, ctx |-> ctxErr])
               /\ ope' = ope
               /\ UNCHANGED <<pollPc, pollRet, tickTimeoutOn, tickPollOn>>
          ELSE /\ fetchLog' = Append(fetchLog, [obs |-> remoteStatus,
                                 timeoutFired |-> timeoutFired, ctx |-> ctxErr])
               /\ LET fetched == [ope EXCEPT
                                     !.Status = remoteStatus,
                                     !.Error = IF remoteStatus = OperationStatusError
                                               THEN "analysis failed" ELSE ""]
                      outcome == StatusOutcome(remoteStatus)
                  IN  /\ ope' = fetched
                      /\ CASE outcome = "continue" ->
                                UNCHANGED <<pollPc, pollRet, tickTimeoutOn, tickPollOn>>
                            [] outcome = "operation" ->
                                PollReturnWith(outcome, OperationError(fetched))
                            [] OTHER -> PollReturn(outcome)
    /\ UNCHANGED <<tickTimeoutC, ctxErr, remoteStatus, timeoutFired>>
    /\ UNCHANGED <<exVars, impVars, packVars>>

\* case <-tickPoll.C: lines 240-253
SelectPoll ==
    /\ pollPc = "select"
    /\ tickPollC = 1
    /\ Len(fetchLog) < MaxFetch
    /\ tickPollC' = 0
    /\ \E fetchOk \in BOOLEAN :
          IF ~fetchOk
          THEN /\ fetchLog' = Append(fetchLog, [obs |-> "failed",
                                 timeoutFired |-> timeoutFired, ctx |-> ctxErr])
               /\ ope' = ope
               /\ PollReturn("fetch")
          ELSE /\ fetchLog' = Append(fetchLog, [obs |-> remoteStatus,
                                 timeoutFired |-> timeoutFired, ctx |-> ctxErr])
               /\ LET fetched == [ope EXCEPT
                                     !.Status = remoteStatus,
                                     !.Error = IF remoteStatus = OperationStatusError
                                               THEN "analysis failed" ELSE ""]
                      outcome == StatusOutcome(remoteStatus)
                  IN  /\ ope' = fetched
                      /\ CASE outcome = "continue" ->
                                UNCHANGED <<pollPc, pollRet, tickTimeoutOn, tickPollOn>>
                            [] outcome = "operation" ->
                                PollReturnWith(outcome, OperationError(fetched))
                            [] OTHER -> PollReturn(outcome)
    /\ UNCHANGED <<tickTimeoutC, ctxErr, remoteStatus, timeoutFired>>
    /\ UNCHANGED <<exVars, impVars, packVars>>

PollNext ==
    \/ TimeoutTick
    \/ PollTick
    \/ Cancel
    \/ RemoteProgress
    \/ SelectDone
    \/ SelectTimeout
    \/ SelectPoll

(***************************************************************************)
(* ParseAndImport: data                                                    *)
(***************************************************************************)
\* sdk.RepositoryWebHookModel and a second hook model
RepositoryWebHookModelName == "RepositoryWebHook"
RepositoryWebHookModelID == 1
SchedulerModelName == "Scheduler"
SchedulerModelID == 2

ModelIDOf(name) ==
    IF name = RepositoryWebHookModelName THEN RepositoryWebHookModelID ELSE SchedulerModelID

HookConfigWorkflow == "workflow"

\* sdk.RepositoryWebHookModel.DefaultConfig lives at index 1 of the heap
DefaultConfigRef == 1
DefaultConfig == [k \in {"method"} |-> "POST"]

\* configurations of persisted hooks and of hooks written in the YAML file
OldConfigA == [k \in {"method", HookConfigWorkflow} |-> IF k = "method" THEN "POST" ELSE "wf0"]
OldConfigB == [k \in {"method", "a"} |-> IF k = "method" THEN "PUT" ELSE "1"]
NewConfigB == [k \in {"method"} |-> "PUT"]
SchedulerConfig == [k \in {"cron"} |-> "@daily"]

\* the hooks a root node may carry, as [model, cfg]
OldHookShapes ==
    [model : {RepositoryWebHookModelName}, cfg : {OldConfigA, OldConfigB}]
        \cup [model : {SchedulerModelName}, cfg : {SchedulerConfig}]
NewHookShapes ==
    [model : {RepositoryWebHookModelName}, cfg : {DefaultConfig, NewConfigB}]
        \cup [model : {SchedulerModelName}, cfg : {SchedulerConfig}]

NoUUID == <<>>
UUIDOf(i) == <<"U", i>>

SeqsUpTo(S, n) == UNION {[1..k -> S] : k \in 0..n}

\* the names of the exported workflow: the last one does not match
\* sdk.NamePatternRegex
WorkflowNames == {"wf1", "bad name"}
NamePatternMatch(name) == name # "bad name"

Applications0 ==
    [id \in {1, 2} |-> [VCSServer |-> "gitlab", RepositoryFullname |-> "org/app",
                        RepositoryStrategy |-> "ssh"]]

ZeroApplication == [VCSServer |-> "", RepositoryFullname |-> "", RepositoryStrategy |-> ""]

\* sdk.Workflow.GetApplication
GetApplication(wf, id) ==
    IF id \in DOMAIN wf.Applications THEN wf.Applications[id] ELSE ZeroApplication

\* the i-th message Import sends
Msg(i) == <<"msg", i>>

ImportRunning == [w |-> <<>>, msgs |-> <<>>, err |-> "running"]

(***************************************************************************)
(* Hooks                                                                   *)
(***************************************************************************)
IsRepoWebHook(h) == h.HookModelName = RepositoryWebHookModelName

\* index of the first hook of the repository webhook model, 0 when none:
\* the loops of lines 106-112 and 118-127
FirstRepoWebHook(hooks) ==
    IF \E i \in 1..Len(hooks) : IsRepoWebHook(hooks[i])
    THEN CHOOSE i \in 1..Len(hooks) :
            /\ IsRepoWebHook(hooks[i])
            /\ \A j \in 1..(i - 1) : ~IsRepoWebHook(hooks[j])
    ELSE 0

\* sdk.WorkflowNodeHookConfig.Clone: a new map with the same content.
\* CloneRef is the index of the copy, CloneHeap the heap that holds it.
CloneRef(hp, ref) == Len(hp) + 1
CloneHeap(hp, ref) == Append(hp, hp[ref])

\* h.Config[key] = value
SetConfig(hp, ref, key, value) == [hp EXCEPT ![ref] = MapSet(@, key, value)]

\* sdk.NodeHook.Ref: the reference derived from the model and the configuration
Ref(h, hp) == [model |-> h.HookModelName, config |-> hp[h.Config]]

\* lines 118-127 without the assignment of line 121
ReconcileLegacy_KeepUUID(hooks, name, old, hp) ==
    LET cur == FirstRepoWebHook(hooks)
        ref == CloneRef(hp, old.Config)
        hp1 == SetConfig(CloneHeap(hp, old.Config), ref, HookConfigWorkflow, name)
    IN  IF cur # 0
        THEN [Hooks |-> [hooks EXCEPT ![cur].Config = ref], heap |-> hp1]
        ELSE [Hooks |-> Append(hooks, [UUID |-> old.UUID,
                                       HookModelName |-> old.HookModelName,
                                       Config |-> ref,
                                       HookModelID |-> old.HookModelID]),
              heap |-> hp1]

\* lines 114-140 with a UUID generated at each call in place of the previous
\* hook's UUID
ReconcileLegacy_FreshUUID(hooks, name, old, hp) ==
    LET cur == FirstRepoWebHook(hooks)
        ref == CloneRef(hp, old.Config)
        hp1 == SetConfig(CloneHeap(hp, old.Config), ref, HookConfigWorkflow, name)
        fresh == UUIDOf(Len(hp1) + 10)
    IN  IF cur # 0
        THEN [Hooks |-> [hooks EXCEPT ![cur].UUID = fresh, ![cur].Config = ref],
              heap |-> hp1]
        ELSE [Hooks |-> Append(hooks, [UUID |-> fresh,
                                       HookModelName |-> old.HookModelName,
                                       Config |-> ref,
                                       HookModelID |-> old.HookModelID]),
              heap |-> hp1]

\* lines 114-140 without the Clone() of lines 122 and 134: the hook shares
\* the previous hook's configuration map
ReconcileLegacy_Alias(hooks, name, old, hp) ==
    LET cur == FirstRepoWebHook(hooks)
        ref == old.Config
        hp1 == SetConfig(hp, ref, HookConfigWorkflow, name)
    IN  IF cur # 0
        THEN [Hooks |-> [hooks EXCEPT ![cur].UUID = old.UUID, ![cur].Config = ref],
              heap |-> hp1]
        ELSE [Hooks |-> Append(hooks, [UUID |-> old.UUID,
                                       HookModelName |-> old.HookModelName,
                                       Config |-> ref,
                                       HookModelID |-> old.HookModelID]),
              heap |-> hp1]

\* lines 114-140: the previous workflow has a repository webhook (old)
ReconcileLegacy(hooks, name, old, hp) ==
    LET cur == FirstRepoWebHook(hooks)
        ref == CloneRef(hp, old.Config)
        hp1 == SetConfig(CloneHeap(hp, old.Config), ref, HookConfigWorkflow, name)
    IN  IF cur # 0
        THEN [Hooks |-> [hooks EXCEPT ![cur].UUID = old.UUID, ![cur].Config = ref],
              heap |-> hp1]
        ELSE [Hooks |-> Append(hooks, [UUID |-> old.UUID,
                                       HookModelName |-> old.HookModelName,
                                       Config |-> ref,
                                       HookModelID |-> old.HookModelID]),
              heap |-> hp1]

\* lines 146-163 with the test of line 161 inverted
EnsureRepoWebHook_Inverted(hooks, hp) ==
    LET hp1 == CloneHeap(hp, DefaultConfigRef)
        newRepoWebHook == [UUID |-> NoUUID,
                           HookModelName |-> RepositoryWebHookModelName,
                           HookModelID |-> RepositoryWebHookModelID,
                           Config |-> CloneRef(hp, DefaultConfigRef)]
        hasARepoWebHook ==
            \E i \in 1..Len(hooks) : Ref(hooks[i], hp1) = Ref(newRepoWebHook, hp1)
    IN  IF hasARepoWebHook
        THEN [Hooks |-> Append(hooks, newRepoWebHook), heap |-> hp1]
        ELSE [Hooks |-> hooks, heap |-> hp1]

\* lines 146-163: no previous repository webhook
EnsureRepoWebHook(hooks, hp) ==
    LET hp1 == CloneHeap(hp, DefaultConfigRef)
        newRepoWebHook == [UUID |-> NoUUID,
                           HookModelName |-> RepositoryWebHookModelName,
                           HookModelID |-> RepositoryWebHookModelID,
                           Config |-> CloneRef(hp, DefaultConfigRef)]
        hasARepoWebHook ==
            \E i \in 1..Len(hooks) : Ref(hooks[i], hp1) = Ref(newRepoWebHook, hp1)
    IN  IF ~hasARepoWebHook
        THEN [Hooks |-> Append(hooks, newRepoWebHook), heap |-> hp1]
        ELSE [Hooks |-> hooks, heap |-> hp1]

\* lines 103-163: the hooks of the root node after the reconciliation against
\* the previous workflow prev (<<>> when nil), and the heap of configuration maps
ReconcileHooks(hooks, name, prev, hp) ==
    LET oldIdx == IF prev = <<>> THEN 0 ELSE FirstRepoWebHook(prev[1].Hooks)
    IN  IF oldIdx # 0
        THEN ReconcileLegacy(hooks, name, prev[1].Hooks[oldIdx], hp)
        ELSE EnsureRepoWebHook(hooks, hp)

\* workflow.DefaultPayload: computed from the workflow's hooks and application
DefaultPayload(wf) ==
    [hooks |-> [i \in 1..Len(wf.Hooks) |-> wf.Hooks[i].HookModelName],
     app |-> wf.ApplicationID]


(***************************************************************************)
(* ParseAndImport: steps                                                   *)
(***************************************************************************)
impInputs == <<opts, ew, oldW, heap0>>
drainVars == <<drainPc, drainM, msgChanClosed, msgList, sent, done, globalError>>

NoPayload == [hooks |-> <<>>, app |-> 0]

ImportIdle ==
    /\ ipc = "idle"
    /\ opts = [WorkflowName |-> "", FromRepository |-> "", IsDefaultBranch |-> TRUE,
               FromBranch |-> "", VCSServer |-> "", RepositoryName |-> "",
               RepositoryStrategy |-> ""]
    /\ ew = [Name |-> "wf1", Hooks |-> <<>>, ApplicationID |-> 0]
    /\ oldW = <<>>
    /\ w = <<>>
    /\ heap = <<DefaultConfig>>
    /\ heap0 = <<DefaultConfig>>
    /\ payloadLog = <<>>
    /\ steps = <<>>
    /\ importCalls = 0
    /\ drainPc = "none" /\ drainM = <<>> /\ msgChanClosed = FALSE
    /\ msgList = <<>> /\ sent = <<>> /\ done = 0 /\ globalError = Nil
    /\ iRet = ImportRunning

\* The arguments of a call: the previous workflow (nil, or a persisted
\* workflow whose hooks carry UUIDs), the exported workflow read from the
\* YAML file (its hooks carry no UUID) and the options.
ImportInit ==
    /\ ipc = "parse"
    /\ \E oldNil \in BOOLEAN :
       \E oldShapes \in SeqsUpTo(OldHookShapes, MaxOldHooks) :
       \E newShapes \in SeqsUpTo(NewHookShapes, MaxNewHooks) :
          /\ oldNil => oldShapes = <<>>
          /\ heap = <<DefaultConfig>>
                      \o [i \in 1..Len(oldShapes) |-> oldShapes[i].cfg]
                      \o [j \in 1..Len(newShapes) |-> newShapes[j].cfg]
          /\ oldW = IF oldNil THEN <<>>
                    ELSE << [Name |-> "wf1",
                             Hooks |-> [i \in 1..Len(oldShapes) |->
                                          [UUID |-> UUIDOf(i),
                                           HookModelName |-> oldShapes[i].model,
                                           HookModelID |-> ModelIDOf(oldShapes[i].model),
                                           Config |-> DefaultConfigRef + i]]] >>
          /\ \E name \in WorkflowNames : \E app \in {0, 1} :
                ew = [Name |-> name,
                      Hooks |-> [j \in 1..Len(newShapes) |->
                                   [UUID |-> NoUUID,
                                    HookModelName |-> newShapes[j].model,
                                    HookModelID |-> ModelIDOf(newShapes[j].model),
                                    Config |-> DefaultConfigRef + Len(oldShapes) + j]],
                      ApplicationID |-> app]
    /\ heap0 = heap
    /\ opts \in [WorkflowName : {"", "wf1", "wf2"}, FromRepository : {"", "git"},
                 IsDefaultBranch : BOOLEAN, FromBranch : {"dev"},
                 VCSServer : {"", "github"}, RepositoryName : {"org/repo"},
                 RepositoryStrategy : {"https"}]
    /\ w = <<>>
    /\ payloadLog = <<>>
    /\ steps = <<>>
    /\ importCalls = 0
    /\ drainPc = "none" /\ drainM = <<>> /\ msgChanClosed = FALSE
    /\ msgList = <<>> /\ sent = <<>> /\ done = 0 /\ globalError = Nil
    /\ iRet = ImportRunning

\* a return statement of ParseAndImport
IReturn(wret, msgs, err) ==
    /\ ipc' = "done"
    /\ iRet' = [w |-> wret, msgs |-> msgs, err |-> err]

\* lines 67-70 and Parse, lines 30-57
IParse ==
    /\ ipc = "parse"
    /\ IF ~NamePatternMatch(ew.Name)
       THEN /\ IReturn(<<>>, <<>>, "ErrInvalidApplicationPattern")
            /\ UNCHANGED <<w, steps>>
       ELSE \E parsed \in BOOLEAN :
               IF ~parsed
               THEN /\ IReturn(<<>>, <<>>, "ErrWrongRequest")
                    /\ UNCHANGED <<w, steps>>
               ELSE /\ w' = << [Name |-> ew.Name,
                                FromRepository |-> "",
                                DerivationBranch |-> "",
                                Hooks |-> ew.Hooks,
                                ApplicationID |-> ew.ApplicationID,
                                Applications |-> Applications0,
                                DefaultPayload |-> NoPayload] >>
                    /\ steps' = Append(steps, "pattern")
                    /\ ipc' = "valid"
                    /\ iRet' = iRet
    /\ UNCHANGED <<impInputs, heap, payloadLog, importCalls, drainVars>>
    /\ UNCHANGED <<exVars, pollVars, packVars>>

\* lines 74-81
IIsValid ==
    /\ ipc = "valid"
    /\ \E outcome \in {"ok", "message", "error"} :
          CASE outcome = "ok" ->
                 /\ steps' = Append(steps, "valid")
                 /\ ipc' = "rename"
                 /\ iRet' = iRet
            [] outcome = "message" ->
                 /\ IReturn(<<>>, <<"invalid workflow">>, "Workflow is not valid")
                 /\ steps' = steps
            [] OTHER ->
                 /\ IReturn(<<>>, <<>>, "Workflow is not valid")
                 /\ steps' = steps
    /\ UNCHANGED <<impInputs, w, heap, payloadLog, importCalls, drainVars>>
    /\ UNCHANGED <<exVars, pollVars, packVars>>

\* lines 83-85
IRenameNode ==
    /\ ipc = "rename"
    /\ \E ok \in BOOLEAN :
          IF ok
          THEN /\ steps' = Append(steps, "rename")
               /\ ipc' = "repository"
               /\ iRet' = iRet
          ELSE /\ IReturn(<<>>, <<>>, "Unable to rename node")
               /\ steps' = steps
    /\ UNCHANGED <<impInputs, w, heap, payloadLog, importCalls, drainVars>>
    /\ UNCHANGED <<exVars, pollVars, packVars>>

\* lines 87-100
ISetRepository ==
    /\ ipc = "repository"
    /\ LET wf == w[1]
           appID == wf.ApplicationID
           wf1 == [wf EXCEPT !.FromRepository = opts.FromRepository,
                             !.DerivationBranch = IF ~opts.IsDefaultBranch
                                                  THEN opts.FromBranch ELSE @]
       IN  IF opts.VCSServer # "" /\ appID # 0
           THEN LET app == [GetApplication(wf1, appID) EXCEPT
                               !.VCSServer = opts.VCSServer,
                               !.RepositoryFullname = opts.RepositoryName,
                               !.RepositoryStrategy = opts.RepositoryStrategy]
                IN  w' = << [wf1 EXCEPT !.Applications = MapSet(@, appID, app)] >>
           ELSE w' = <<wf1>>
    /\ steps' = Append(steps, "repository")
    /\ ipc' = "reconcile"
    /\ UNCHANGED <<impInputs, heap, payloadLog, importCalls, drainVars, iRet>>
    /\ UNCHANGED <<exVars, pollVars, packVars>>

\* lines 102-170
IReconcile ==
    /\ ipc = "reconcile"
    /\ LET wf == w[1]
           oldIdx == IF oldW = <<>> THEN 0 ELSE FirstRepoWebHook(oldW[1].Hooks)
           r1 == ReconcileHooks(wf.Hooks, wf.Name, oldW, heap)
           wf2 == [wf EXCEPT !.Hooks = r1.Hooks]
       IN  IF wf.FromRepository = ""
           THEN /\ steps' = Append(steps, "reconcile")
                /\ ipc' = "namecheck"
                /\ UNCHANGED <<w, heap, payloadLog, iRet>>
           ELSE IF oldW = <<>> \/ oldIdx = 0
           THEN /\ heap' = r1.heap
                /\ payloadLog' = Append(payloadLog, wf2.Hooks)
                /\ \E ok \in BOOLEAN :
                      IF ok
                      THEN /\ w' = << [wf2 EXCEPT !.DefaultPayload = DefaultPayload(wf2)] >>
                           /\ steps' = Append(steps, "reconcile")
                           /\ ipc' = "namecheck"
                           /\ iRet' = iRet
                      ELSE /\ w' = <<wf2>>
                           /\ IReturn(<<>>, <<>>, "Unable to get default payload")
                           /\ steps' = steps
           ELSE /\ w' = << [wf EXCEPT !.Hooks = r1.Hooks] >>
                /\ heap' = r1.heap
                /\ steps' = Append(steps, "reconcile")
                /\ ipc' = "namecheck"
                /\ UNCHANGED <<payloadLog, iRet>>
    /\ UNCHANGED <<impInputs, importCalls, drainVars>>
    /\ UNCHANGED <<exVars, pollVars, packVars>>

\* lines 172-174 without the comparison of the names
INameCheck_NoCheck ==
    /\ ipc = "namecheck"
    /\ steps' = Append(steps, "namecheck")
    /\ ipc' = "startdrain"
    /\ UNCHANGED <<impInputs, w, heap, payloadLog, importCalls, drainVars, iRet>>
    /\ UNCHANGED <<exVars, pollVars, packVars>>

\* lines 172-174
INameCheck ==
    /\ ipc = "namecheck"
    /\ IF opts.WorkflowName # "" /\ w[1].Name # opts.WorkflowName
       THEN /\ IReturn(<<>>, <<>>, "ErrWorkflowNameImport")
            /\ steps' = steps
       ELSE /\ steps' = Append(steps, "namecheck")
            /\ ipc' = "startdrain"
            /\ iRet' = iRet
    /\ UNCHANGED <<impInputs, w, heap, payloadLog, importCalls, drainVars>>
    /\ UNCHANGED <<exVars, pollVars, packVars>>

\* lines 177-190: the wait group, the channel, the list, the go statement
IStartDrain ==
    /\ ipc = "startdrain"
    /\ done' = 1
    /\ msgChanClosed' = FALSE
    /\ msgList' = <<>>
    /\ drainPc' = "recv"
    /\ ipc' = "callimport"
    /\ UNCHANGED <<impInputs, w, heap, payloadLog, steps, importCalls, drainM, sent,
                   globalError, iRet>>
    /\ UNCHANGED <<exVars, pollVars, packVars>>

\* line 192: Import is entered
ICallImport ==
    /\ ipc = "callimport"
    /\ importCalls' = importCalls + 1
    /\ steps' = Append(steps, "import")
    /\ ipc' = "import"
    /\ UNCHANGED <<impInputs, w, heap, payloadLog, drainVars, iRet>>
    /\ UNCHANGED <<exVars, pollVars, packVars>>

\* Import sends a message on the unbuffered msgChan: the send completes
\* together with the receive of line 184
ImportSend ==
    /\ ipc = "import"
    /\ drainPc = "recv"
    /\ Len(sent) < MaxMsgs
    /\ LET m == Msg(Len(sent) + 1)
       IN  /\ sent' = Append(sent, m)
           /\ drainM' = <<m>>
    /\ drainPc' = "append"
    /\ UNCHANGED <<impInputs, ipc, w, heap, payloadLog, steps, importCalls,
                   msgChanClosed, msgList, done, globalError, iRet>>
    /\ UNCHANGED <<exVars, pollVars, packVars>>

\* Import returns its error
ImportReturn ==
    /\ ipc = "import"
    /\ globalError' \in {Nil, "import failed"}
    /\ ipc' = "close"
    /\ UNCHANGED <<impInputs, w, heap, payloadLog, steps, importCalls, drainPc, drainM,
                   msgChanClosed, msgList, sent, done, iRet>>
    /\ UNCHANGED <<exVars, pollVars, packVars>>

\* line 193
ICloseChan ==
    /\ ipc = "close"
    /\ msgChanClosed' = TRUE
    /\ ipc' = "wait"
    /\ UNCHANGED <<impInputs, w, heap, payloadLog, steps, importCalls, drainPc, drainM,
                   msgList, sent, done, globalError, iRet>>
    /\ UNCHANGED <<exVars, pollVars, packVars>>

\* line 188
DrainAppend ==
    /\ drainPc = "append"
    /\ msgList' = Append(msgList, drainM[1])
    /\ drainM' = <<>>
    /\ drainPc' = "recv"
    /\ UNCHANGED <<impInputs, ipc, w, heap, payloadLog, steps, importCalls,
                   msgChanClosed, sent, done, globalError, iRet>>
    /\ UNCHANGED <<exVars, pollVars, packVars>>

\* lines 184-187 on the closed channel, and the deferred done.Done()
DrainExit ==
    /\ drainPc = "recv"
    /\ msgChanClosed
    /\ drainPc' = "exit"
    /\ done' = done - 1
    /\ UNCHANGED <<impInputs, ipc, w, heap, payloadLog, steps, importCalls, drainM,
                   msgChanClosed, msgList, sent, globalError, iRet>>
    /\ UNCHANGED <<exVars, pollVars, packVars>>

\* the return of line 196 without the done.Wait() of line 194
IWaitReturn_NoWait ==
    /\ ipc = "wait"
    /\ IReturn(w, msgList, globalError)
    /\ UNCHANGED <<impInputs, w, heap, payloadLog, steps, importCalls, drainVars>>
    /\ UNCHANGED <<exVars, pollVars, packVars>>

\* lines 194-196: done.Wait() and the return
IWaitReturn ==
    /\ ipc = "wait"
    /\ done = 0
    /\ IReturn(w, msgList, globalError)
    /\ UNCHANGED <<impInputs, w, heap, payloadLog, steps, importCalls, drainVars>>
    /\ UNCHANGED <<exVars, pollVars, packVars>>

ImportNext ==
    \/ IParse
    \/ IIsValid
    \/ IRenameNode
    \/ ISetRepository
    \/ IReconcile
    \/ INameCheck
    \/ IStartDrain
    \/ ICallImport
    \/ ImportSend
    \/ ImportReturn
    \/ ICloseChan
    \/ DrainAppend
    \/ DrainExit
    \/ IWaitReturn

(***************************************************************************)
(* ReadCDSFiles, and the extraction of what it packed                      *)
(***************************************************************************)
\* yaml.Unmarshal leaves the target as it is for an empty document
EmptyDoc == EmptyMap

\* len(fcontent): a content's length is counted in its fields; the empty
\* content alone has length 0
ContentLength(c) == Cardinality(DOMAIN c)

Slash == "/"

\* filepath.Base: what follows the last separator
Base(path) ==
    LET seps == {i \in 1..Len(path) : path[i] = Slash}
    IN  IF seps = {} THEN path
        ELSE SubSeq(path, (CHOOSE i \in seps : \A j \in seps : j <= i) + 1, Len(path))

\* the files an operation may have loaded: two directories hold a file of
\* the same base name
DirD == <<"d", Slash>>
DirE == <<"e", Slash>>
Paths == {DirD \o NameApp, DirE \o NameApp, DirD \o NamePip, DirE \o DirD \o NameEnv,
          NameWf}
Contents == Docs \cup {BadDoc, EmptyDoc}

FileSets ==
    UNION {[P -> Contents] : P \in {Q \in SUBSET Paths : Cardinality(Q) <= MaxFiles}}

NoHeader == <<>>
PackRunning == [reader |-> <<>>, err |-> "running", hdr |-> NoHeader]

PackIdle ==
    /\ files = EmptyMap
    /\ toPack = {}
    /\ packed = <<>>
    /\ packPc = "idle"
    /\ packRet = PackRunning

\* lines 114-117: extractWorkflow passes the operation's loaded files
PackInit ==
    /\ files \in FileSets
    /\ toPack = DOMAIN files
    /\ packed = <<>>
    /\ packPc = "loop"
    /\ packRet = PackRunning

\* tar.Writer.Write inside an entry of the given size: the bytes written
TarWrite(c, size) == IF ContentLength(c) <= size THEN ContentLength(c) ELSE size

\* One iteration of the range loop of lines 119-134; Go visits the keys of a
\* map in an unspecified order.  The writer writes to a bytes.Buffer, so
\* WriteHeader and Write return no error.
PackEntry ==
    /\ packPc = "loop"
    /\ \E fname \in toPack :
          LET fcontent == files[fname]
              hdr == [Name |-> Base(fname), Mode |-> "0600",
                      Size |-> ContentLength(fcontent)]
              n == TarWrite(fcontent, hdr.Size)
          IN  IF n = 0
              THEN /\ packPc' = "done"
                   /\ packRet' = [reader |-> <<>>, err |-> "nothing to write",
                                  hdr |-> <<hdr>>]
                   /\ UNCHANGED <<toPack, packed>>
              ELSE /\ packed' = Append(packed, [hdr |-> hdr, doc |-> fcontent])
                   /\ toPack' = toPack \ {fname}
                   /\ UNCHANGED <<packPc, packRet>>
    /\ UNCHANGED files
    /\ UNCHANGED <<exVars, pollVars, impVars>>

\* lines 136-140: the loop is over, the writer is closed, the reader returned
PackReturn ==
    /\ packPc = "loop"
    /\ toPack = {}
    /\ packPc' = "done"
    /\ packRet' = [reader |-> <<packed>>, err |-> Nil, hdr |-> NoHeader]
    /\ UNCHANGED <<files, toPack, packed>>
    /\ UNCHANGED <<exVars, pollVars, impVars>>

\* lines 83 and 98: extractWorkflow hands the reader to Push, which calls
\* extractFromCDSFiles on it (lines 150-158)
ExtractPacked ==
    /\ packPc = "done"
    /\ packRet.err = Nil
    /\ exPc = "idle"
    /\ archive' = [i \in 1..Len(packRet.reader[1]) |->
                     [name |-> packRet.reader[1][i].hdr.Name,
                      doc |-> packRet.reader[1][i].doc]]
    /\ exPos' = 0
    /\ res' = EmptyEntities
    /\ mError' = <<>>
    /\ exPc' = "loop"
    /\ exRet' = NotReturned
    /\ UNCHANGED <<pollVars, impVars, packVars>>

PackNext ==
    \/ PackEntry
    \/ PackReturn
    \/ ExtractPacked
    \/ ExtractEntry
    \/ ExtractReadError
    \/ ExtractReturn

(***************************************************************************)
(* Properties of extractFromCDSFiles                                       *)
(***************************************************************************)
IsBad(e) == "!" \in DOMAIN e.doc

\* positions, among the first n entries, of the workflow candidates
WorkflowCandidates(n) ==
    {i \in 1..n : /\ ~Contains(archive[i].name, DotApp)
                  /\ ~Contains(archive[i].name, DotPip)
                  /\ ~Contains(archive[i].name, DotEnv)}

MinOf(S) == CHOOSE i \in S : \A j \in S : i <= j

ReturnedAtEOF == exPc = "done" /\ exRet.err # "ErrWrongRequest"

\* C1: an archive with two or more workflow candidates is rejected with a
\* "two workflows files found" error naming the first candidate and a later
\* one, no bundle is returned, and the workflow definition read from the
\* first candidate is never replaced or changed by a later candidate.
C1_SecondWorkflowFileRejected ==
    LET cands == WorkflowCandidates(exPos)
        first == MinOf(cands)
    IN  /\ (ReturnedAtEOF /\ Cardinality(cands) >= 2) =>
              /\ exRet.bundle = <<>>
              /\ exRet.err = "ErrWorkflowInvalid"
              /\ \E k \in 1..Len(mError) : \E j \in cands \ {first} :
                    /\ mError[k].msg = "two workflows files found"
                    /\ mError[k].files = <<archive[first].name, archive[j].name>>
        /\ (cands # {} /\ ~IsBad(archive[first])) =>
              res.wrkflw = YamlUnmarshal(archive[first].doc, ZeroEntity).val

\* C2: a deserialization failure never stops the loop: the errors recorded
\* after n entries are exactly one per failing entry among them, in order,
\* each naming that entry's file only; every entry is consumed before the
\* return, the entries that deserialize are stored whatever failed before
\* them, and the call returns "workflow invalid" without a bundle exactly when
\* an error was recorded, the populated bundle otherwise.
C2_PartialFailure ==
    LET failing == SelectSeq(SubSeq(archive, 1, exPos), IsBad)
    IN  /\ Len(mError) = Len(failing)
        /\ \A k \in 1..Len(failing) :
              /\ mError[k].msg = "Unable to unmarshal"
              /\ mError[k].files = <<failing[k].name>>
        /\ \A i \in 1..exPos :
              (~IsBad(archive[i]) /\ i \notin WorkflowCandidates(exPos)) =>
                 archive[i].name \in
                    (DOMAIN res.apps) \cup (DOMAIN res.pips) \cup (DOMAIN res.envs)
        /\ ReturnedAtEOF =>
              /\ exPos = Len(archive)
              /\ (exRet.err = "ErrWorkflowInvalid") <=> (Len(failing) > 0)
              /\ IF Len(mError) > 0
                 THEN exRet = [bundle |-> <<>>, err |-> "ErrWorkflowInvalid"]
                 ELSE exRet = [bundle |-> <<res>>, err |-> Nil]

\* three entries, only the second fails: the call has returned the combined
\* error, the one recorded error names the second file, the third was stored
C2_Witness ==
    /\ ReturnedAtEOF
    /\ Len(archive) = 3
    /\ ~IsBad(archive[1]) /\ IsBad(archive[2]) /\ ~IsBad(archive[3])
    /\ archive[1].name = NameApp /\ archive[2].name = NamePip /\ archive[3].name = NameEnv
    /\ Len(mError) = 1 /\ mError[1].files = <<NamePip>>
    /\ NameEnv \in DOMAIN res.envs
    /\ exRet.err = "ErrWorkflowInvalid"


(***************************************************************************)
(* Properties of pollRepositoryOperation                                   *)
(***************************************************************************)
Terminal(status) == status \in {OperationStatusDone, OperationStatusError}

NonTerminal(status) == status \in {OperationStatusPending, OperationStatusProcessing}

\* C3: when every status fetch succeeds with a non-terminal status and the
\* context is never cancelled, no status fetch happens after the timeout
\* ticker has fired, and the call returns only with the timeout error.
C3_TimeoutStopsPolling ==
    (/\ ctxErr = Nil
     /\ \A i \in 1..Len(fetchLog) : NonTerminal(fetchLog[i].obs)) =>
        /\ \A i \in 1..Len(fetchLog) : ~fetchLog[i].timeoutFired
        /\ pollPc = "done" => pollRet.err = "ErrRepoOperationTimeout"

\* C4: once the context is cancelled no status fetch happens, and a call
\* that returns after the cancellation returns the context's own error.
C4_CancellationStopsPolling ==
    /\ \A i \in 1..Len(fetchLog) : fetchLog[i].ctx = Nil
    /\ (pollPc = "done" /\ pollRet.ctx # Nil) => pollRet.err = pollRet.ctx

\* C5: no status fetch follows a fetch that observed done or error; the call
\* has returned nil as soon as a fetch observed done and the operation error
\* as soon as a fetch observed error; it returns nil only if its last fetch
\* observed done.
C5_StopsAtTerminalStatus ==
    LET n == Len(fetchLog)
    IN  /\ \A i \in 1..(n - 1) : ~Terminal(fetchLog[i].obs)
        /\ (n > 0 /\ fetchLog[n].obs = OperationStatusDone) =>
              (pollPc = "done" /\ pollRet.err = Nil)
        /\ (n > 0 /\ fetchLog[n].obs = OperationStatusError) =>
              (pollPc = "done" /\ pollRet.err = "operation")
        /\ pollRet.err = Nil => (n > 0 /\ fetchLog[n].obs = OperationStatusDone)

\* two fetches saw the operation in progress, the third saw it done and the
\* call returned nil
C5_Witness ==
    /\ pollPc = "done"
    /\ pollRet.err = Nil
    /\ Len(fetchLog) = 3
    /\ NonTerminal(fetchLog[1].obs) /\ NonTerminal(fetchLog[2].obs)
    /\ fetchLog[3].obs = OperationStatusDone
    /\ ope.Status = OperationStatusDone

\* C6: after any return both tickers are stopped.
C6_TickersStopped ==
    pollPc = "done" => (~tickTimeoutOn /\ ~tickPollOn)

(***************************************************************************)
(* Properties of ParseAndImport                                            *)
(***************************************************************************)
\* the reconciliation of lines 102-170 has completed without error
Reconciled == \E i \in 1..Len(steps) : steps[i] = "reconcile"

RepoWebHooksOf(hooks) == {i \in 1..Len(hooks) : IsRepoWebHook(hooks[i])}

\* positions of the repository webhooks of the previous workflow's root node
PreviousRepoWebHooks ==
    IF oldW = <<>> THEN {} ELSE RepoWebHooksOf(oldW[1].Hooks)

\* C7: with a repository origin and a previous workflow whose root node has
\* a repository webhook (the first one in its hook list) of UUID U and
\* configuration C, the reconciled workflow has exactly one hook of UUID U,
\* it is of the repository webhook model, its configuration is C with the
\* workflow-name key set to the new workflow's name, and it is the parsed
\* workflow's first repository webhook when there was one (nothing is
\* appended), the one appended hook otherwise.
C7_HookIdentityPreserved ==
    (Reconciled /\ w[1].FromRepository # "" /\ PreviousRepoWebHooks # {}) =>
        LET legacy == oldW[1].Hooks[MinOf(PreviousRepoWebHooks)]
            hooks == w[1].Hooks
            parsed == RepoWebHooksOf(ew.Hooks)
            withU == {i \in 1..Len(hooks) : hooks[i].UUID = legacy.UUID}
        IN  /\ Cardinality(withU) = 1
            /\ \A i \in withU :
                  /\ IsRepoWebHook(hooks[i])
                  /\ heap[hooks[i].Config] =
                        MapSet(heap0[legacy.Config], HookConfigWorkflow, w[1].Name)
                  /\ i = IF parsed # {} THEN MinOf(parsed) ELSE Len(ew.Hooks) + 1
            /\ Len(hooks) = IF parsed # {} THEN Len(ew.Hooks) ELSE Len(ew.Hooks) + 1

\* the previous repository webhook is the second hook of the previous
\* workflow, the parsed workflow had its own repository webhook with another
\* configuration, and the import has returned without error
C7_Witness ==
    /\ ipc = "done" /\ iRet.err = Nil
    /\ w[1].FromRepository # ""
    /\ PreviousRepoWebHooks = {2}
    /\ RepoWebHooksOf(ew.Hooks) = {1}
    /\ heap0[ew.Hooks[1].Config] # DefaultConfig
    /\ w[1].Hooks[1].UUID = UUIDOf(2)
    /\ heap[w[1].Hooks[1].Config][HookConfigWorkflow] = w[1].Name

\* C8: after the reconciliation of a parsed workflow with a repository
\* origin and at most one repository webhook, the root node has exactly one
\* hook of the repository webhook model.
C8_SingleRepoWebHook ==
    (/\ Reconciled
     /\ w[1].FromRepository # ""
     /\ Cardinality(RepoWebHooksOf(ew.Hooks)) <= 1) =>
        Cardinality(RepoWebHooksOf(w[1].Hooks)) = 1

\* C9: the default payload is computed at most once, only with a repository
\* origin and no previous repository webhook, and from the hook list the
\* workflow ends with; on that branch, when the parsed workflow has no
\* repository webhook, the reconciled hook list is the parsed one followed by
\* one repository webhook without UUID whose configuration is the default
\* one, and the node's default payload is the one computed from it.
C9_DefaultHookCreated ==
    LET noLegacy == PreviousRepoWebHooks = {}
    IN  /\ Len(payloadLog) <= 1
        /\ payloadLog # <<>> =>
              (opts.FromRepository # "" /\ noLegacy /\ payloadLog[1] = w[1].Hooks)
        /\ (Reconciled /\ ~(w[1].FromRepository # "" /\ noLegacy)) =>
              (payloadLog = <<>> /\ w[1].DefaultPayload = NoPayload)
        /\ (/\ Reconciled
            /\ w[1].FromRepository # ""
            /\ noLegacy
            /\ RepoWebHooksOf(ew.Hooks) = {}) =>
              LET hooks == w[1].Hooks
                  n == Len(ew.Hooks)
              IN  /\ Len(hooks) = n + 1
                  /\ SubSeq(hooks, 1, n) = ew.Hooks
                  /\ \A i \in 1..n : heap[hooks[i].Config] = heap0[ew.Hooks[i].Config]
                  /\ hooks[n + 1].UUID = NoUUID
                  /\ hooks[n + 1].HookModelName = RepositoryWebHookModelName
                  /\ hooks[n + 1].HookModelID = RepositoryWebHookModelID
                  /\ hooks[n + 1].Config # DefaultConfigRef
                  /\ heap[hooks[n + 1].Config] = DefaultConfig
                  /\ payloadLog = <<hooks>>
                  /\ w[1].DefaultPayload = DefaultPayload(w[1])

\* the previous workflow has a hook but no repository webhook, the parsed
\* workflow has one hook of another model, and the import has returned with
\* the appended webhook and the payload computed from both hooks
C9_Witness ==
    /\ ipc = "done" /\ iRet.err = Nil
    /\ oldW # <<>> /\ Len(oldW[1].Hooks) = 1 /\ PreviousRepoWebHooks = {}
    /\ Len(ew.Hooks) = 1 /\ RepoWebHooksOf(ew.Hooks) = {}
    /\ Len(w[1].Hooks) = 2 /\ IsRepoWebHook(w[1].Hooks[2])
    /\ Len(payloadLog) = 1
    /\ w[1].DefaultPayload.hooks = <<SchedulerModelName, RepositoryWebHookModelName>>

StepOrder ==
    <<"pattern", "valid", "rename", "repository", "reconcile", "namecheck", "import">>

\* C10: Import is called at most once and only after the name pattern, the
\* structural validation, the node renaming, the reconciliation and the name
\* check have succeeded in that order; the drain goroutine is started only
\* after the name check; when an expected name is given and differs from the
\* parsed workflow's name, Import is never called, the drain goroutine is
\* never started, and the call that reaches the name check returns
\* ErrWorkflowNameImport with no workflow and no message.
C10_ImportAfterChecks ==
    /\ importCalls <= 1
    /\ Len(steps) <= Len(StepOrder) /\ steps = SubSeq(StepOrder, 1, Len(steps))
    /\ importCalls = 1 <=> steps = StepOrder
    /\ drainPc # "none" => Len(steps) >= 6
    /\ iRet.err = "ErrWorkflowNameImport" => (importCalls = 0 /\ drainPc = "none")
    /\ (w # <<>> /\ opts.WorkflowName # "" /\ w[1].Name # opts.WorkflowName) =>
          /\ importCalls = 0
          /\ drainPc = "none"
          /\ Len(steps) <= 5
          /\ (ipc = "done" /\ Reconciled) =>
                iRet = [w |-> <<>>, msgs |-> <<>>, err |-> "ErrWorkflowNameImport"]

\* the parsed workflow is wf1, wf2 was expected: the call has returned the
\* name-mismatch error after a reconciliation that reused the previous hook
C10_Witness ==
    /\ ipc = "done"
    /\ iRet.err = "ErrWorkflowNameImport"
    /\ opts.WorkflowName = "wf2" /\ w[1].Name = "wf1"
    /\ steps = SubSeq(StepOrder, 1, 5)
    /\ PreviousRepoWebHooks # {} /\ w[1].FromRepository # ""
    /\ importCalls = 0 /\ drainPc = "none"

(***************************************************************************)
(* Properties of the message drain of ParseAndImport                       *)
(***************************************************************************)
IsPrefix(s, t) == Len(s) <= Len(t) /\ s = SubSeq(t, 1, Len(s))

\* C11: whatever messages Import sends and however the drain goroutine is
\* interleaved with it, the list the drain goroutine builds is at every
\* moment a prefix of the sequence sent, in emission order; the channel is
\* closed only after Import has returned; and a call that ran Import returns
\* only after the drain goroutine has left its loop, with a message list that
\* is exactly the sequence Import sent.
C11_MessagesInOrder ==
    /\ IsPrefix(msgList, sent)
    /\ msgChanClosed => ipc \in {"wait", "done"}
    /\ ipc = "import" => ~msgChanClosed
    /\ (ipc = "done" /\ importCalls = 1) =>
          /\ drainPc = "exit"
          /\ drainM = <<>>
          /\ msgList = sent
          /\ iRet.msgs = sent

\* Import has sent two messages and failed; the call returned both, in order
C11_Witness ==
    /\ ipc = "done"
    /\ importCalls = 1
    /\ sent = <<Msg(1), Msg(2)>>
    /\ iRet.msgs = <<Msg(1), Msg(2)>>
    /\ iRet.err = "import failed"

(***************************************************************************)
(* Properties of the reconciliation: the previous workflow                 *)
(***************************************************************************)
\* the configuration maps the previous workflow's hooks point to
PreviousConfigRefs ==
    IF oldW = <<>> THEN {} ELSE {oldW[1].Hooks[i].Config : i \in 1..Len(oldW[1].Hooks)}

\* the reconciliation ran against a previous workflow with a repository webhook
LegacyReconciled ==
    /\ Reconciled
    /\ w[1].FromRepository # ""
    /\ PreviousRepoWebHooks # {}

\* C12: the reconciliation never modifies the previous workflow: every
\* configuration map that existed before the call (those of the previous
\* workflow's hooks among them) keeps its content and the previous workflow
\* keeps its hooks and their UUIDs; after a reconciliation against a previous
\* repository webhook, the new workflow's repository webhook points to a
\* configuration map that did not exist before the call and that no hook of
\* the previous workflow points to, holding the previous hook's configuration
\* with the workflow name set.
C12_PreviousWorkflowUntouched ==
    /\ [](/\ Len(heap) >= Len(heap0)
          /\ \A r \in 1..Len(heap0) : heap[r] = heap0[r]
          /\ LegacyReconciled =>
                LET old == oldW[1].Hooks[FirstRepoWebHook(oldW[1].Hooks)]
                    h == w[1].Hooks[FirstRepoWebHook(w[1].Hooks)]
                IN  /\ h.Config \notin PreviousConfigRefs
                    /\ h.Config > Len(heap0)
                    /\ heap[h.Config] =
                          MapSet(heap0[old.Config], HookConfigWorkflow, w[1].Name)
                    /\ heap[old.Config] = heap0[old.Config])
    /\ [][oldW' = oldW]_vars

\* the previous hook's configuration names workflow wf0, the new hook's copy
\* names wf1 and the previous one still names wf0
C12_Witness ==
    /\ LegacyReconciled
    /\ ipc = "done"
    /\ LET old == oldW[1].Hooks[FirstRepoWebHook(oldW[1].Hooks)]
           h == w[1].Hooks[FirstRepoWebHook(w[1].Hooks)]
       IN  /\ HookConfigWorkflow \in DOMAIN heap[old.Config]
           /\ heap[old.Config][HookConfigWorkflow] = "wf0"
           /\ heap[h.Config][HookConfigWorkflow] = "wf1"
           /\ h.Config # old.Config

(***************************************************************************)
(* Properties of the reconciliation: a second import                       *)
(***************************************************************************)
\* a configuration without its workflow-name key
WithoutWorkflowName(cfg) == [k \in (DOMAIN cfg) \ {HookConfigWorkflow} |-> cfg[k]]

\* what a reconciliation's result shows of the root node's hooks
HooksView(hooks, hp) ==
    [i \in 1..Len(hooks) |->
        [UUID |-> hooks[i].UUID,
         HookModelName |-> hooks[i].HookModelName,
         Config |-> WithoutWorkflowName(hp[hooks[i].Config])]]

\* C13: after a reconciliation with a repository origin, reconciling the same
\* parsed definition once more against the same previous workflow, in the
\* heap the first reconciliation left, yields the hooks the first one
\* produced: the same number of root-node hooks, with the same UUIDs, models
\* and configurations (workflow-name key aside); and it yields what it would
\* have produced if the first reconciliation had never run.
C13_IdempotentReimport ==
    (Reconciled /\ w[1].FromRepository # "") =>
        LET second == ReconcileHooks(ew.Hooks, ew.Name, oldW, heap)
            alone == ReconcileHooks(ew.Hooks, ew.Name, oldW, heap0)
        IN  /\ Len(second.Hooks) = Len(w[1].Hooks)
            /\ HooksView(second.Hooks, second.heap) = HooksView(w[1].Hooks, heap)
            /\ HooksView(second.Hooks, second.heap) = HooksView(alone.Hooks, alone.heap)
            /\ \A r \in 1..Len(heap0) : second.heap[r] = heap0[r]

\* a reconciliation that replaced the parsed repository webhook's PUT
\* configuration by the previous hook's one and kept the scheduler hook
C13_Witness ==
    /\ LegacyReconciled
    /\ ipc = "done" /\ importCalls = 1
    /\ Len(ew.Hooks) = 2 /\ Len(w[1].Hooks) = 2
    /\ \E i \in RepoWebHooksOf(ew.Hooks) : heap0[ew.Hooks[i].Config] = NewConfigB
    /\ \E i \in RepoWebHooksOf(w[1].Hooks) :
          /\ w[1].Hooks[i].UUID # NoUUID
          /\ heap[w[1].Hooks[i].Config]["method"] = "POST"

(***************************************************************************)
(* Properties of pollRepositoryOperation: credentials                      *)
(***************************************************************************)
\* C14: the error returned for the 'error' status is a function of the
\* Operation's status and error text alone: it carries the error text and a
\* copy of the Operation whose SSH key content and password are both "***",
\* so two runs that differ only in those credentials return the same error;
\* no other return carries the Operation; and no step of the poller changes
\* the credential fields of the caller's Operation, which still holds them
\* when the error is returned.
C14_CredentialsRedacted ==
    /\ [](pollRet.err = "operation" =>
            /\ pollRet.detail =
                  << [cause |-> ope.Error,
                      ope |-> [Status |-> ope.Status,
                               Error |-> ope.Error,
                               RepositoryStrategy |-> [SSHKeyContent |-> Redacted,
                                                       Password |-> Redacted]]] >>
            /\ ope.RepositoryStrategy.SSHKeyContent \in SSHKeys
            /\ ope.RepositoryStrategy.Password \in Passwords)
    /\ [](pollRet.err # "operation" => pollRet.detail = NoDetail)
    /\ [][ope'.RepositoryStrategy = ope.RepositoryStrategy]_vars

\* the second fetch saw the error status: the returned error shows "***"
\* where the caller's Operation still holds key2 and pw2
C14_Witness ==
    /\ pollPc = "done"
    /\ pollRet.err = "operation"
    /\ Len(fetchLog) = 2
    /\ ope.Status = OperationStatusError
    /\ ope.RepositoryStrategy = [SSHKeyContent |-> "key2", Password |-> "pw2"]
    /\ pollRet.detail[1].ope.RepositoryStrategy.Password = Redacted
    /\ pollRet.detail[1].cause = "analysis failed"

(***************************************************************************)
(* Properties of ReadCDSFiles                                              *)
(***************************************************************************)
EmptyFiles == {f \in DOMAIN files : ContentLength(files[f]) = 0}

\* C15: ReadCDSFiles returns the 'nothing to write' error only for an entry
\* whose content is non-empty, and a file set that holds a file of empty
\* content is packed without error, with an entry of size 0 for that file.
C15_EmptyFilePacked ==
    /\ packRet.err = "nothing to write" => packRet.hdr[1].Size > 0
    /\ (packPc = "done" /\ EmptyFiles # {}) =>
          /\ packRet.err = Nil
          /\ \A f \in EmptyFiles :
                \E i \in 1..Len(packed) :
                   packed[i].hdr.Name = Base(f) /\ packed[i].hdr.Size = 0

(***************************************************************************)
(* Properties of ParseAndImport: the VCS linkage override                  *)
(***************************************************************************)
\* the step of lines 87-100 has been executed
RepositorySet == \E i \in 1..Len(steps) : steps[i] = "repository"

\* C16: when a VCS-linkage override is requested (opts.VCSServer is not
\* empty) and the parsed root node has application id 0, the call fails:
\* the step of lines 87-100 does not succeed, Import is never called and a
\* finished call has returned an error; when the application id is not 0,
\* the application map after the step is the parsed one with that
\* application's VCSServer, RepositoryFullname and RepositoryStrategy
\* overwritten and nothing else changed; without an override the
\* application map is the parsed one.
C16_OverrideNeedsApplication ==
    /\ (w # <<>> /\ opts.VCSServer # "" /\ w[1].ApplicationID = 0) =>
          /\ ~RepositorySet
          /\ importCalls = 0
          /\ ipc = "done" => iRet.err # Nil
    /\ (RepositorySet /\ opts.VCSServer # "" /\ w[1].ApplicationID # 0) =>
          LET id == w[1].ApplicationID
          IN  w[1].Applications =
                 MapSet(Applications0, id,
                        [GetApplication([Applications |-> Applications0], id) EXCEPT
                            !.VCSServer = opts.VCSServer,
                            !.RepositoryFullname = opts.RepositoryName,
                            !.RepositoryStrategy = opts.RepositoryStrategy])
    /\ (RepositorySet /\ opts.VCSServer = "") => w[1].Applications = Applications0

(***************************************************************************)
(* Properties of extractFromCDSFiles: classification                       *)
(***************************************************************************)
\* names of the entries read so far that deserialize and pass the test T
GoodNames(T(_)) ==
    {archive[i].name : i \in {j \in 1..exPos : ~IsBad(archive[j]) /\ T(archive[j].name)}}

IsAppName(n) == Contains(n, DotApp)
IsPipName(n) == ~Contains(n, DotApp) /\ Contains(n, DotPip)
IsEnvName(n) == ~Contains(n, DotApp) /\ ~Contains(n, DotPip) /\ Contains(n, DotEnv)

\* the entity the file n holds: the last entry of that name that deserializes
LastGood(n) ==
    LET at == {i \in 1..exPos : archive[i].name = n /\ ~IsBad(archive[i])}
        last == CHOOSE i \in at : \A j \in at : j <= i
    IN  [f \in Fields |-> IF f \in DOMAIN archive[last].doc
                          THEN archive[last].doc[f] ELSE ""]

\* C17: an entry is an application when its name contains ".app.", else a
\* pipeline when it contains ".pip.", else an environment when it contains
\* ".env.", else a workflow candidate; the application bucket holds exactly
\* the names of the deserialized application entries read so far, each with
\* the entity read from it, and likewise the pipeline and the environment
\* bucket, so a name that contains several of the substrings is stored in
\* the bucket of the first matching test only, and a workflow candidate is
\* stored in none of the three buckets.
C17_ClassificationOrder ==
    /\ DOMAIN res.apps = GoodNames(IsAppName)
    /\ DOMAIN res.pips = GoodNames(IsPipName)
    /\ DOMAIN res.envs = GoodNames(IsEnvName)
    /\ \A n \in DOMAIN res.apps : res.apps[n] = LastGood(n)
    /\ \A n \in DOMAIN res.pips : res.pips[n] = LastGood(n)
    /\ \A n \in DOMAIN res.envs : res.envs[n] = LastGood(n)

\* the archive holds a file whose name contains ".pip." and ".app." and a
\* pipeline file: the first is returned as an application only
C17_Witness ==
    /\ exPc = "done" /\ exRet.err = Nil
    /\ DOMAIN exRet.bundle[1].apps = {NameMix}
    /\ DOMAIN exRet.bundle[1].pips = {NamePip}
    /\ DOMAIN exRet.bundle[1].envs = {}
    /\ Contains(NameMix, DotPip) /\ Contains(NameMix, DotApp)
    /\ Len(archive) = 3

(***************************************************************************)
(* Properties of pollRepositoryOperation: termination                      *)
(***************************************************************************)
\* the four ways out of the loop, each with the event that causes it
ExitCause ==
    CASE pollRet.err \in {Nil, "operation"} ->
            /\ fetchLog # <<>>
            /\ Terminal(fetchLog[Len(fetchLog)].obs)
      [] pollRet.err = "fetch" ->
            /\ fetchLog # <<>>
            /\ fetchLog[Len(fetchLog)].obs = "failed"
      [] pollRet.err = "ErrRepoOperationTimeout" -> timeoutFired
      [] pollRet.err \in {"context canceled", "context deadline exceeded"} ->
            pollRet.ctx = pollRet.err
      [] OTHER -> FALSE

\* a pass through the select statement: it fetches or it returns
Iteration == fetchLog' # fetchLog \/ pollPc' # pollPc

\* the pass took one tick from exactly one ticker channel, or found the
\* context cancelled and took none
OneEvent ==
    \/ /\ tickPollC = 1 /\ tickPollC' = 0
       /\ tickTimeoutC' = tickTimeoutC
    \/ /\ tickTimeoutC = 1 /\ tickTimeoutC' = 0
       /\ tickPollC' = tickPollC /\ fetchLog' = fetchLog
    \/ /\ ctxErr # Nil
       /\ tickTimeoutC' = tickTimeoutC /\ tickPollC' = tickPollC
       /\ fetchLog' = fetchLog

\* C18: when the runtime delivers the timeout ticker's tick and the select
\* statement does not ignore a ready timeout case for ever, every call
\* returns, and it returns once the timeout ticker has fired; a call returns
\* only after a fetch that saw a terminal status, after a failed fetch, after
\* the timeout ticker has fired, or with the cancelled context's error; and
\* every pass through the loop takes exactly one tick or the cancellation, a
\* fetch taking one tick of the poll ticker.
C18_PollerTerminates ==
    /\ <>(pollPc = "done")
    /\ timeoutFired ~> (pollPc = "done")
    /\ [](pollPc = "done" => ExitCause)
    /\ [](pollPc # "done" => pollRet = PollRunning)
    /\ [][Iteration => OneEvent]_vars
    /\ [][fetchLog' # fetchLog => (Len(fetchLog') = Len(fetchLog) + 1 /\ tickPollC = 1)]_vars

\* the operation stayed pending over three fetches, the last of them after
\* the timeout ticker had fired, and the call returned the timeout error
C18_Witness ==
    /\ pollPc = "done"
    /\ pollRet.err = "ErrRepoOperationTimeout"
    /\ timeoutFired
    /\ Len(fetchLog) = 3
    /\ \A i \in 1..3 : NonTerminal(fetchLog[i].obs)
    /\ ctxErr = Nil

(***************************************************************************)
(* Properties of pollRepositoryOperation: a failed fetch                   *)
(***************************************************************************)
\* C19: a status fetch that fails is the call's last fetch: the call has
\* returned the wrapped fetch error, with no operation detail, in the same
\* iteration, and the fetch error is returned for no other reason.
C19_FetchFailureReturnsAtOnce ==
    LET n == Len(fetchLog)
    IN  /\ \A i \in 1..(n - 1) : fetchLog[i].obs # "failed"
        /\ (n > 0 /\ fetchLog[n].obs = "failed") =>
              /\ pollPc = "done"
              /\ pollRet = [err |-> "fetch", ctx |-> fetchLog[n].ctx, detail |-> NoDetail]
        /\ pollRet.err = "fetch" => (n > 0 /\ fetchLog[n].obs = "failed")

\* two fetches saw the operation in progress, the third failed and the call
\* returned the fetch error while both tickers had more to deliver
C19_Witness ==
    /\ pollPc = "done"
    /\ pollRet.err = "fetch"
    /\ Len(fetchLog) = 3
    /\ NonTerminal(fetchLog[1].obs) /\ NonTerminal(fetchLog[2].obs)
    /\ fetchLog[3].obs = "failed"
    /\ ~timeoutFired /\ ctxErr = Nil

(***************************************************************************)
(* Properties of packing followed by extraction                            *)
(***************************************************************************)
\* the input files whose base name passes the test T
FilesOf(T(_)) == {f \in DOMAIN files : T(Base(f))}

IsWorkflowName(n) == ~IsAppName(n) /\ ~IsPipName(n) /\ ~IsEnvName(n)

\* the entity a file's content deserializes to
EntityOf(f) == [k \in Fields |-> IF k \in DOMAIN files[f] THEN files[f][k] ELSE ""]

\* the file set was packed and the archive extracted to the end
PackedAndExtracted ==
    /\ packPc = "done" /\ packRet.err = Nil
    /\ exPc = "done" /\ exRet.err = Nil

\* C20: when a file set in which every file deserializes and exactly one
\* file is a workflow candidate has been packed and extracted, the bundle
\* holds as many applications as the file set holds application files, as
\* many pipelines as pipeline files and as many environments as environment
\* files, and each of these files has its own entity in the bundle, also
\* when two files in different directories have the same base name.
C20_PackExtractRoundTrip ==
    (/\ PackedAndExtracted
     /\ \A f \in DOMAIN files : "!" \notin DOMAIN files[f]
     /\ Cardinality(FilesOf(IsWorkflowName)) = 1) =>
        LET b == exRet.bundle[1]
        IN  /\ Cardinality(DOMAIN b.apps) = Cardinality(FilesOf(IsAppName))
            /\ Cardinality(DOMAIN b.pips) = Cardinality(FilesOf(IsPipName))
            /\ Cardinality(DOMAIN b.envs) = Cardinality(FilesOf(IsEnvName))
            /\ \A f \in FilesOf(IsAppName) : b.apps[Base(f)] = EntityOf(f)
            /\ \A f \in FilesOf(IsPipName) : b.pips[Base(f)] = EntityOf(f)
            /\ \A f \in FilesOf(IsEnvName) : b.envs[Base(f)] = EntityOf(f)

(***************************************************************************)
(* Specifications                                                          *)
(***************************************************************************)
InitExtract == ExtractInit /\ PollIdle /\ ImportIdle /\ PackIdle

InitPoll == ExtractIdle /\ PollInit /\ ImportIdle /\ PackIdle

InitImport == ExtractIdle /\ PollIdle /\ ImportInit /\ PackIdle

InitPack == ExtractIdle /\ PollIdle /\ ImportIdle /\ PackInit

SpecExtract == InitExtract /\ [][ExtractNext]_vars

SpecPoll == InitPoll /\ [][PollNext]_vars

SpecImport == InitImport /\ [][ImportNext]_vars

\* The runtime's timer delivers the tick of tickTimeout, and select chooses
\* at random among its ready cases, so a timeout case that stays ready is
\* taken in the end.
FairSpecPoll ==
    /\ InitPoll
    /\ [][PollNext]_vars
    /\ WF_vars(TimeoutTick)
    /\ WF_vars(SelectTimeout)

SpecPack == InitPack /\ [][PackNext]_vars

Init ==
    \/ InitExtract
    \/ InitPoll
    \/ InitImport
    \/ InitPack

Next ==
    \/ ExtractNext
    \/ PollNext
    \/ ImportNext
    \/ PackNext

Spec == Init /\ [][Next]_vars

====
